---------------------------- MODULE Spec2Model ----------------------------
(***************************************************************************)
(* A model of three pieces of KubeOne:                                     *)
(*   - the v1beta1 defaulting functions (SetDefaults_KubeOneCluster and    *)
(*     the functions it calls, with defaultHostConfig also on its own),    *)
(*   - pkg/certificate (CAKeyPair, NewSignedTLSCert),                      *)
(*   - the machinecontroller MachineDeployment generator                   *)
(*     (CreateMachineDeployments, GenerateMachineDeploymentsManifest,      *)
(*     createMachineDeployment, machineSpec).                              *)
(* Go strings are TLA+ strings ("" is the empty string, \o concatenates),  *)
(* except the Kubernetes version, which is a sequence of one-character     *)
(* strings because the code inspects its characters.  A Go pointer is a    *)
(* sequence of length 0 (nil) or 1 (the value pointed to).                 *)
(***************************************************************************)
EXTENDS Integers, Sequences, FiniteSets, TLC

VARIABLES
    obj,        \* the *KubeOneCluster the defaulting functions mutate
    input,      \* the cluster as the user wrote it (never changes)
    pre,        \* obj as it was before the last defaulting call
    last,       \* name of the last defaulting function called on obj
    calls,      \* number of defaulting calls made so far
    config,     \* the *configupload.Configuration handed to CAKeyPair
    caRet,      \* what CAKeyPair returned (Nil before the call)
    leafArgs,   \* name, namespace and domain of the last NewSignedTLSCert
    leafRet,    \* what NewSignedTLSCert did and returned (Nil before)
    state,      \* the *state.State: DynamicClient and Cluster
    done,       \* CreateMachineDeployments: pools handled so far
    applied,    \* the objects CreateOrUpdate has sent to the controller
    ret,        \* what CreateMachineDeployments returned (Nil before)
    manifest,   \* what GenerateMachineDeploymentsManifest returned
    host,       \* the *HostConfig defaultHostConfig mutates
    hostIn,     \* the host as the user wrote it (never changes)
    hostCalls   \* number of defaultHostConfig calls made on host

normVars == <<obj, input, pre, last, calls>>
certVars == <<config, caRet, leafArgs, leafRet>>

mcVars == <<state, done, applied, ret, manifest>>

hostVars == <<host, hostIn, hostCalls>>

vars == <<obj, input, pre, last, calls, config, caRet, leafArgs, leafRet,
          state, done, applied, ret, manifest, host, hostIn, hostCalls>>

-----------------------------------------------------------------------------
(* Bounds of the model *)

\* largest number of control-plane hosts in an input
MaxControlPlane == 2
\* largest number of static workers in an input
MaxStaticWorkers == 2
\* largest number of defaulting calls in one behaviour
MaxCalls == 2
\* largest number of certificates in the CA certificate entry
MaxCerts == 2
\* largest number of worker pools in Cluster.DynamicWorkers
MaxPools == 2

-----------------------------------------------------------------------------
(* Pointers and small helpers *)

Nil == <<>>
Some(x) == <<x>>
SeqsUpTo(S, n) == UNION {[1..k -> S] : k \in 0..n}

-----------------------------------------------------------------------------
(* Program constants *)

DefaultPodSubnet == "10.244.0.0/16"
DefaultServiceSubnet == "10.96.0.0/12"
DefaultServiceDNS == "cluster.local"
DefaultNodePortRange == "30000-32767"
DefaultStaticNoProxy == "127.0.0.1/8,localhost"
DefaultCanalMTU == 1450

-----------------------------------------------------------------------------
(* defaults / defaulti *)

defaults(in, defaultValue) == IF in # "" THEN in ELSE defaultValue

defaulti(in, defaultValue) == IF in # 0 THEN in ELSE defaultValue

-----------------------------------------------------------------------------
(* Zero values of the API types (what Go gives a field the user left out) *)

\* a pointer to a struct none of whose fields the defaulting code reads
EmptyStruct == "{}"

\* corev1.Taint{Effect: NoSchedule, Key: "node-role.kubernetes.io/master"}
MasterTaint ==
    [Effect |-> "NoSchedule", Key |-> "node-role.kubernetes.io/master"]

BaseHost ==
    [ID |-> 0, IsLeader |-> FALSE,
     PublicAddress |-> "", PrivateAddress |-> "",
     SSHPrivateKeyFile |-> "", SSHAgentSocket |-> "",
     SSHUsername |-> "", SSHPort |-> 0,
     BastionPort |-> 0, BastionUser |-> "",
     Taints |-> Nil]

BaseStaticAuditLogConfig ==
    [LogPath |-> "", LogMaxAge |-> 0, LogMaxBackup |-> 0, LogMaxSize |-> 0]

BaseOpenIDConnectConfig ==
    [ClientID |-> "", UsernameClaim |-> "", UsernamePrefix |-> "",
     GroupsClaim |-> "", GroupsPrefix |-> "", SigningAlgs |-> ""]

BaseCluster ==
    [ControlPlane |-> [Hosts |-> <<>>],
     StaticWorkers |-> [Hosts |-> <<>>],
     APIEndpoint |-> [Host |-> "", Port |-> 0],
     Versions |-> [Kubernetes |-> <<>>],
     ContainerRuntime |-> [Docker |-> Nil, Containerd |-> Nil],
     CloudProvider |-> [AWS |-> Nil, GCE |-> Nil, Hetzner |-> Nil,
                        Openstack |-> Nil],
     ClusterNetwork |-> [PodSubnet |-> "", ServiceSubnet |-> "",
                         ServiceDomainName |-> "", NodePortRange |-> "",
                         CNI |-> Nil],
     Proxy |-> [HTTP |-> "", HTTPS |-> "", NoProxy |-> ""],
     MachineController |-> Nil,
     SystemPackages |-> Nil,
     RegistryConfiguration |-> Nil,
     AssetConfiguration |->
         [Kubernetes |-> [ImageRepository |-> ""],
          CoreDNS |-> [ImageRepository |-> ""],
          Etcd |-> [ImageRepository |-> ""],
          MetricsServer |-> [ImageRepository |-> ""]],
     Features |-> [MetricsServer |-> Nil, StaticAuditLog |-> Nil,
                   OpenIDConnect |-> Nil],
     Addons |-> Nil]

-----------------------------------------------------------------------------
(* defaultHostConfig *)

\* a defaulting whose bastion user is "root" whatever the SSH username
defaultHostConfigBastionRoot(h) ==
    [h EXCEPT !.PublicAddress = defaults(@, h.PrivateAddress),
              !.PrivateAddress = defaults(@, h.PublicAddress),
              !.SSHAgentSocket = IF h.SSHPrivateKeyFile = ""
                                 THEN defaults(@, "env:SSH_AUTH_SOCK")
                                 ELSE @,
              !.SSHUsername = defaults(@, "root"),
              !.SSHPort = defaulti(@, 22),
              !.BastionPort = defaulti(@, 22),
              !.BastionUser = defaults(@, "root")]

defaultHostConfig(h) ==
    LET h1 == IF h.PublicAddress = "" /\ h.PrivateAddress # ""
              THEN [h EXCEPT !.PublicAddress = h.PrivateAddress]
              ELSE h
        h2 == IF h1.PrivateAddress = "" /\ h1.PublicAddress # ""
              THEN [h1 EXCEPT !.PrivateAddress = h1.PublicAddress]
              ELSE h1
        h3 == IF h2.SSHPrivateKeyFile = ""
              THEN [h2 EXCEPT !.SSHAgentSocket =
                                  defaults(@, "env:SSH_AUTH_SOCK")]
              ELSE h2
        h4 == [h3 EXCEPT !.SSHUsername = defaults(@, "root"),
                         !.SSHPort = defaulti(@, 22),
                         !.BastionPort = defaulti(@, 22)]
    IN  [h4 EXCEPT !.BastionUser = defaults(@, h4.SSHUsername)]

-----------------------------------------------------------------------------
(* SetDefaults_Hosts *)

\* a scan that never notices an explicit leader
LeaderScanIgnoringFlags(hosts, k) == TRUE

\* the value of setDefaultLeader after the loop has visited hosts 1..k
RECURSIVE LeaderScan(_, _)
LeaderScan(hosts, k) ==
    IF k = 0 THEN TRUE
    ELSE LET setDefaultLeader == LeaderScan(hosts, k - 1)
         IN  IF setDefaultLeader /\ hosts[k].IsLeader
             THEN FALSE
             ELSE setDefaultLeader

\* the body of the loop over obj.ControlPlane.Hosts, for Go index idx
ControlPlaneHostDefault(h, idx) ==
    LET h1 == defaultHostConfig([h EXCEPT !.ID = idx])
    IN  IF h1.Taints = Nil
        THEN [h1 EXCEPT !.Taints = Some(<<MasterTaint>>)]
        ELSE h1

\* the body of the loop over obj.StaticWorkers.Hosts, for Go index idx
StaticWorkerHostDefault(h, idx, nControlPlane) ==
    LET h1 == defaultHostConfig([h EXCEPT !.ID = idx + nControlPlane])
    IN  IF h1.Taints = Nil
        THEN [h1 EXCEPT !.Taints = Some(<<>>)]
        ELSE h1

SetDefaults_Hosts(o) ==
    IF Len(o.ControlPlane.Hosts) = 0
    THEN o
    ELSE LET cpIn == o.ControlPlane.Hosts
             swIn == o.StaticWorkers.Hosts
             setDefaultLeader == LeaderScan(cpIn, Len(cpIn))
             cp == [k \in 1..Len(cpIn) |->
                        ControlPlaneHostDefault(cpIn[k], k - 1)]
             cpLed == IF setDefaultLeader
                      THEN [cp EXCEPT ![1].IsLeader = TRUE]
                      ELSE cp
             sw == [k \in 1..Len(swIn) |->
                        StaticWorkerHostDefault(swIn[k], k - 1, Len(cpIn))]
         IN  [o EXCEPT !.ControlPlane.Hosts = cpLed,
                       !.StaticWorkers.Hosts = sw]

-----------------------------------------------------------------------------
(* SetDefaults_APIEndpoints *)

SetDefaults_APIEndpoints(o) ==
    IF o.APIEndpoint.Host = "" /\ Len(o.ControlPlane.Hosts) = 0
    THEN o
    ELSE LET o1 == IF o.APIEndpoint.Host = ""
                   THEN [o EXCEPT !.APIEndpoint.Host =
                                      o.ControlPlane.Hosts[1].PublicAddress]
                   ELSE o
         IN  [o1 EXCEPT !.APIEndpoint.Port = defaulti(@, 6443)]

-----------------------------------------------------------------------------
(* SetDefaults_Versions: strings.TrimPrefix(version, "v") *)

TrimPrefix(s, prefix) ==
    IF Len(s) >= Len(prefix) /\ SubSeq(s, 1, Len(prefix)) = prefix
    THEN SubSeq(s, Len(prefix) + 1, Len(s))
    ELSE s

SetDefaults_Versions(o) ==
    [o EXCEPT !.Versions.Kubernetes = TrimPrefix(@, <<"v">>)]

-----------------------------------------------------------------------------
(* SetDefaults_ContainerRuntime: semver.NewVersion and the ">= 1.22"       *)
(* constraint, for versions of the shape v?MAJOR[.MINOR[.PATCH]]           *)

DigitChars == <<"0", "1", "2", "3", "4", "5", "6", "7", "8", "9">>

IsDigit(c) == \E n \in 1..Len(DigitChars) : DigitChars[n] = c

DigitVal(c) == (CHOOSE n \in 1..Len(DigitChars) : DigitChars[n] = c) - 1

\* the decimal value of a non-empty sequence of digits
RECURSIVE ParseUint(_)
ParseUint(digits) ==
    IF digits = <<>> THEN 0
    ELSE ParseUint(SubSeq(digits, 1, Len(digits) - 1)) * 10
             + DigitVal(digits[Len(digits)])

\* the parts of s between its dots
RECURSIVE SplitDots(_)
SplitDots(s) ==
    IF \E i \in 1..Len(s) : s[i] = "."
    THEN LET i == CHOOSE j \in 1..Len(s) :
                      s[j] = "." /\ \A k \in 1..(j - 1) : s[k] # "."
         IN  <<SubSeq(s, 1, i - 1)>> \o SplitDots(SubSeq(s, i + 1, Len(s)))
    ELSE <<s>>

IsNumber(part) == part # <<>> /\ \A i \in 1..Len(part) : IsDigit(part[i])

\* semver.NewVersion: [err, Major, Minor, Patch]; a missing minor or patch is 0
NewVersion(v) ==
    LET parts == SplitDots(TrimPrefix(v, <<"v">>))
        n == Len(parts)
    IN  IF n <= 3 /\ \A i \in 1..n : IsNumber(parts[i])
        THEN [err |-> FALSE,
              Major |-> ParseUint(parts[1]),
              Minor |-> IF n >= 2 THEN ParseUint(parts[2]) ELSE 0,
              Patch |-> IF n >= 3 THEN ParseUint(parts[3]) ELSE 0]
        ELSE [err |-> TRUE, Major |-> 0, Minor |-> 0, Patch |-> 0]

\* the constraint "> 1.22" in place of ">= 1.22"
GtKube122(ver) ==
    \/ ver.Major > 1
    \/ ver.Major = 1 /\ ver.Minor > 22
    \/ ver.Major = 1 /\ ver.Minor = 22 /\ ver.Patch > 0

\* the constraint ">= 1.22" checked against a parsed version
GteKube122(ver) ==
    \/ ver.Major > 1
    \/ ver.Major = 1 /\ ver.Minor >= 22

SetDefaults_ContainerRuntime(o) ==
    IF o.ContainerRuntime.Docker # Nil THEN o
    ELSE IF o.ContainerRuntime.Containerd # Nil THEN o
    ELSE LET actualVer == NewVersion(o.Versions.Kubernetes)
         IN  IF actualVer.err THEN o
             ELSE IF GteKube122(actualVer)
                  THEN [o EXCEPT !.ContainerRuntime.Containerd =
                                     Some(EmptyStruct)]
                  ELSE o

-----------------------------------------------------------------------------
(* SetDefaults_ClusterNetwork *)

\* the MTU of defaultCanal after the switch over the cloud provider
DefaultCanalMTUFor(cloudProvider) ==
    LET mtu == DefaultCanalMTU
    IN  IF cloudProvider.AWS # Nil THEN defaulti(mtu, 8951)
        ELSE IF cloudProvider.GCE # Nil THEN defaulti(mtu, 1410)
        ELSE IF cloudProvider.Hetzner # Nil THEN defaulti(mtu, 1400)
        ELSE IF cloudProvider.Openstack # Nil THEN defaulti(mtu, 1400)
        ELSE mtu

SetDefaults_ClusterNetwork(o) ==
    LET o1 == [o EXCEPT
                 !.ClusterNetwork.PodSubnet = defaults(@, DefaultPodSubnet),
                 !.ClusterNetwork.ServiceSubnet =
                     defaults(@, DefaultServiceSubnet),
                 !.ClusterNetwork.ServiceDomainName =
                     defaults(@, DefaultServiceDNS),
                 !.ClusterNetwork.NodePortRange =
                     defaults(@, DefaultNodePortRange)]
        defaultCanal == [MTU |-> DefaultCanalMTUFor(o.CloudProvider)]
        o2 == IF o1.ClusterNetwork.CNI = Nil
              THEN [o1 EXCEPT !.ClusterNetwork.CNI =
                                  Some([Canal |-> Some(defaultCanal),
                                        Cilium |-> Nil])]
              ELSE o1
        cni2 == o2.ClusterNetwork.CNI[1]
        o3 == IF cni2.Canal # Nil /\ cni2.Canal[1].MTU = 0
              THEN [o2 EXCEPT !.ClusterNetwork.CNI[1].Canal[1].MTU =
                                  defaultCanal.MTU]
              ELSE o2
        cni3 == o3.ClusterNetwork.CNI[1]
    IN  IF cni3.Cilium # Nil /\ cni3.Cilium[1].KubeProxyReplacement = ""
        THEN [o3 EXCEPT !.ClusterNetwork.CNI[1].Cilium[1].KubeProxyReplacement
                            = "disabled"]
        ELSE o3

-----------------------------------------------------------------------------
(* SetDefaults_Proxy *)

\* strings.Join(elems, sep)
RECURSIVE Join(_, _)
Join(elems, sep) ==
    IF Len(elems) = 0 THEN ""
    ELSE IF Len(elems) = 1 THEN elems[1]
    ELSE elems[1] \o sep \o Join(Tail(elems), sep)

SetDefaults_Proxy(o) ==
    IF o.Proxy.HTTP = "" /\ o.Proxy.HTTPS = ""
    THEN o
    ELSE LET noproxy0 == <<DefaultStaticNoProxy,
                           o.ClusterNetwork.ServiceDomainName,
                           o.ClusterNetwork.PodSubnet,
                           o.ClusterNetwork.ServiceSubnet>>
             noproxy == IF o.Proxy.NoProxy # ""
                        THEN Append(noproxy0, o.Proxy.NoProxy)
                        ELSE noproxy0
         IN  [o EXCEPT !.Proxy.NoProxy = Join(noproxy, ",")]

-----------------------------------------------------------------------------
(* SetDefaults_MachineController .. SetDefaults_Addons *)

SetDefaults_MachineController(o) ==
    IF o.MachineController = Nil
    THEN [o EXCEPT !.MachineController = Some([Deploy |-> TRUE])]
    ELSE o

SetDefaults_SystemPackages(o) ==
    IF o.SystemPackages = Nil
    THEN [o EXCEPT !.SystemPackages = Some([ConfigureRepositories |-> TRUE])]
    ELSE o

SetDefaults_AssetConfiguration(o) ==
    IF o.RegistryConfiguration = Nil
    THEN o
    ELSE IF o.RegistryConfiguration[1].OverwriteRegistry = ""
    THEN o
    ELSE LET reg == o.RegistryConfiguration[1].OverwriteRegistry
         IN  [o EXCEPT
                !.AssetConfiguration.Kubernetes.ImageRepository =
                    defaults(@, reg),
                !.AssetConfiguration.CoreDNS.ImageRepository =
                    defaults(@, reg),
                !.AssetConfiguration.Etcd.ImageRepository =
                    defaults(@, reg),
                !.AssetConfiguration.MetricsServer.ImageRepository =
                    defaults(@, reg)]

defaultOpenIDConnect(oidc) ==
    [oidc EXCEPT !.ClientID = defaults(@, "kubernetes"),
                   !.UsernameClaim = defaults(@, "sub"),
                   !.UsernamePrefix = defaults(@, "oidc:"),
                   !.GroupsClaim = defaults(@, "groups"),
                   !.GroupsPrefix = defaults(@, "oidc:"),
                   !.SigningAlgs = defaults(@, "RS256")]

defaultStaticAuditLogConfig(audit) ==
    [audit EXCEPT !.LogPath = defaults(@, "/var/log/kubernetes/audit.log"),
                   !.LogMaxAge = defaulti(@, 30),
                   !.LogMaxBackup = defaulti(@, 3),
                   !.LogMaxSize = defaulti(@, 100)]

SetDefaults_Features(o) ==
    LET o1 == IF o.Features.MetricsServer = Nil
              THEN [o EXCEPT !.Features.MetricsServer =
                                 Some([Enable |-> TRUE])]
              ELSE o
        o2 == IF o1.Features.StaticAuditLog # Nil
                 /\ o1.Features.StaticAuditLog[1].Enable
              THEN [o1 EXCEPT !.Features.StaticAuditLog[1].Config =
                                  defaultStaticAuditLogConfig(@)]
              ELSE o1
    IN  IF o2.Features.OpenIDConnect # Nil
           /\ o2.Features.OpenIDConnect[1].Enable
        THEN [o2 EXCEPT !.Features.OpenIDConnect[1].Config =
                            defaultOpenIDConnect(@)]
        ELSE o2

SetDefaults_Addons(o) ==
    IF o.Addons # Nil /\ o.Addons[1].Enable
    THEN [o EXCEPT !.Addons[1].Path = defaults(@, "./addons")]
    ELSE o

-----------------------------------------------------------------------------
(* SetDefaults_KubeOneCluster: the eleven defaulting functions, in order *)

\* a composition that defaults the proxy before the cluster network
SetDefaults_KubeOneClusterProxyFirst(o) ==
    SetDefaults_Addons(
      SetDefaults_Features(
        SetDefaults_AssetConfiguration(
          SetDefaults_SystemPackages(
            SetDefaults_MachineController(
              SetDefaults_ClusterNetwork(
                SetDefaults_Proxy(
                  SetDefaults_ContainerRuntime(
                    SetDefaults_Versions(
                      SetDefaults_APIEndpoints(
                        SetDefaults_Hosts(o)))))))))))

SetDefaults_KubeOneCluster(o) ==
    LET o1 == SetDefaults_Hosts(o)
        o2 == SetDefaults_APIEndpoints(o1)
        o3 == SetDefaults_Versions(o2)
        o4 == SetDefaults_ContainerRuntime(o3)
        o5 == SetDefaults_ClusterNetwork(o4)
        o6 == SetDefaults_Proxy(o5)
        o7 == SetDefaults_MachineController(o6)
        o8 == SetDefaults_SystemPackages(o7)
        o9 == SetDefaults_AssetConfiguration(o8)
        o10 == SetDefaults_Features(o9)
    IN  SetDefaults_Addons(o10)

-----------------------------------------------------------------------------
(* The clusters a user can write.  Each family varies the fields one group *)
(* of defaulting functions reads and leaves the others at their zero value. *)

ControlPlaneHostInputs ==
    {[BaseHost EXCEPT !.IsLeader = l, !.ID = i] :
        l \in BOOLEAN, i \in {0, 7}}

StaticWorkerHostInputs ==
    {[BaseHost EXCEPT !.ID = i] : i \in {0, 7}}

HostInputs ==
    {[BaseCluster EXCEPT !.ControlPlane.Hosts = cp,
                         !.StaticWorkers.Hosts = sw] :
        cp \in SeqsUpTo(ControlPlaneHostInputs, MaxControlPlane),
        sw \in SeqsUpTo(StaticWorkerHostInputs, MaxStaticWorkers)}

CloudProviderInputs ==
    {BaseCluster.CloudProvider} \cup
    {[BaseCluster.CloudProvider EXCEPT ![p] = Some(EmptyStruct)] :
        p \in {"AWS", "GCE", "Hetzner", "Openstack"}}

CNIInputs ==
    {Nil,
     Some([Canal |-> Nil, Cilium |-> Nil]),
     Some([Canal |-> Some([MTU |-> 0]), Cilium |-> Nil]),
     Some([Canal |-> Some([MTU |-> 1500]), Cilium |-> Nil]),
     Some([Canal |-> Nil, Cilium |-> Some([KubeProxyReplacement |-> ""])]),
     Some([Canal |-> Nil,
           Cilium |-> Some([KubeProxyReplacement |-> "strict"])])}

ProxyInputs ==
    [HTTP : {"", "http://proxy:3128"},
     HTTPS : {"", "https://proxy:3128"},
     NoProxy : {"", "example.com"}]

NetworkInputs ==
    {[BaseCluster EXCEPT !.CloudProvider = cloud,
                         !.ClusterNetwork.CNI = cni,
                         !.ClusterNetwork.PodSubnet = pod,
                         !.Proxy = proxy] :
        cloud \in CloudProviderInputs, cni \in CNIInputs,
        pod \in {"", "172.16.0.0/16"}, proxy \in ProxyInputs}

VersionInputs ==
    {<<>>,
     <<"v">>,
     <<"v", "1", ".", "2", "3", ".", "0">>,
     <<"v", "1", ".", "2", "0", ".", "5">>,
     <<"1", ".", "2", "3", ".", "0">>,
     <<"1", ".", "2", "2", ".", "0">>,
     <<"1", ".", "2", "2">>,
     <<"v", "1", ".", "2", "1", ".", "9">>,
     <<"1", ".", "9", ".", "1", "0">>,
     <<"2", ".", "0", ".", "0">>,
     <<"v", "2">>,
     <<"0", ".", "3", "0", ".", "0">>,
     <<"v", "v", "1", ".", "2", "3", ".", "0">>,
     <<"1", ".", "2", "3", ".", "x">>,
     <<"1", ".", ".", "2", "3">>,
     <<"1", ".", "2", "3", ".", "0", ".", "1">>,
     <<"l", "a", "t", "e", "s", "t">>}

ContainerRuntimeInputs ==
    {[Docker |-> Nil, Containerd |-> Nil],
     [Docker |-> Some(EmptyStruct), Containerd |-> Nil],
     [Docker |-> Nil, Containerd |-> Some(EmptyStruct)]}

RuntimeInputs ==
    {[BaseCluster EXCEPT !.Versions.Kubernetes = v,
                         !.ContainerRuntime = rt] :
        v \in VersionInputs, rt \in ContainerRuntimeInputs}

FeatureInputs ==
    {[BaseCluster EXCEPT
        !.MachineController = mc,
        !.RegistryConfiguration = reg,
        !.AssetConfiguration.Etcd.ImageRepository = etcd,
        !.Features.StaticAuditLog = audit,
        !.Features.OpenIDConnect = oidc,
        !.Addons = addons] :
        mc \in {Nil, Some([Deploy |-> FALSE])},
        reg \in {Nil, Some([OverwriteRegistry |-> ""]),
                 Some([OverwriteRegistry |-> "registry.local"])},
        etcd \in {"", "quay.io/coreos"},
        audit \in {Nil,
                   Some([Enable |-> TRUE,
                         Config |-> BaseStaticAuditLogConfig])},
        oidc \in {Nil,
                  Some([Enable |-> TRUE, Config |-> BaseOpenIDConnectConfig]),
                  Some([Enable |-> FALSE,
                        Config |-> BaseOpenIDConnectConfig])},
        addons \in {Nil, Some([Enable |-> TRUE, Path |-> ""]),
                    Some([Enable |-> TRUE, Path |-> "/opt/addons"])}}

\* hosts by which of their two addresses the user gave
AddressedHostInputs ==
    {[BaseHost EXCEPT !.PublicAddress = pub, !.PrivateAddress = priv] :
        pub \in {"", "203.0.113.10"}, priv \in {"", "10.0.0.10"}}

\* control-plane hosts alone, and static workers beside at most one
\* control-plane host
AddressInputs ==
    {[BaseCluster EXCEPT !.ControlPlane.Hosts = cp] :
        cp \in SeqsUpTo(AddressedHostInputs, MaxControlPlane)}
    \cup
    {[BaseCluster EXCEPT !.ControlPlane.Hosts = cp,
                         !.StaticWorkers.Hosts = sw] :
        cp \in {<<>>, <<[BaseHost EXCEPT !.PrivateAddress = "10.0.0.1"]>>},
        sw \in SeqsUpTo(AddressedHostInputs, MaxStaticWorkers)}

EndpointInputs ==
    {[BaseCluster EXCEPT !.ControlPlane.Hosts = cp,
                         !.APIEndpoint = [Host |-> h, Port |-> p]] :
        cp \in SeqsUpTo(AddressedHostInputs, MaxControlPlane),
        h \in {"", "api.example.com"}, p \in {0, 8443}}

ClusterInputs == HostInputs \cup NetworkInputs \cup RuntimeInputs
                     \cup FeatureInputs \cup AddressInputs
                     \cup EndpointInputs

-----------------------------------------------------------------------------
(* The defaulting functions as operations on obj *)

\* what every defaulting call records beside its effect on obj
Recorded(name) ==
    /\ pre' = obj
    /\ last' = name
    /\ calls' = calls + 1
    /\ UNCHANGED <<input, certVars, mcVars, hostVars>>

CallSetDefaults_KubeOneCluster ==
    /\ calls < MaxCalls
    /\ obj' = SetDefaults_KubeOneCluster(obj)
    /\ Recorded("SetDefaults_KubeOneCluster")

CallSetDefaults_Hosts ==
    /\ calls < MaxCalls
    /\ obj' = SetDefaults_Hosts(obj)
    /\ Recorded("SetDefaults_Hosts")

CallSetDefaults_ClusterNetwork ==
    /\ calls < MaxCalls
    /\ obj' = SetDefaults_ClusterNetwork(obj)
    /\ Recorded("SetDefaults_ClusterNetwork")

\* the certificate variables while the defaulting functions are studied
CertIdle ==
    /\ config = [KubernetesPKI |-> <<>>]
    /\ caRet = Nil
    /\ leafArgs = Nil
    /\ leafRet = Nil

\* the host of defaultHostConfig while other functions are studied
HostIdle ==
    /\ host = BaseHost
    /\ hostIn = BaseHost
    /\ hostCalls = 0

\* the machinecontroller variables while other functions are studied
MCIdle ==
    /\ state = [DynamicClient |-> Nil, Cluster |-> Nil]
    /\ done = 0
    /\ applied = <<>>
    /\ ret = Nil
    /\ manifest = Nil

Init ==
    /\ input \in ClusterInputs
    /\ obj = input
    /\ pre = input
    /\ last = "none"
    /\ calls = 0
    /\ CertIdle
    /\ MCIdle
    /\ HostIdle

Next ==
    \/ CallSetDefaults_KubeOneCluster
    \/ CallSetDefaults_Hosts
    \/ CallSetDefaults_ClusterNetwork

Spec == Init /\ [][Next]_vars

-----------------------------------------------------------------------------
(* pkg/certificate: CAKeyPair *)

\* the keys of Configuration.KubernetesPKI that CAKeyPair reads
KubernetesCACertPath == "KubernetesCACertPath"
KubernetesCAKeyPath == "KubernetesCAKeyPath"

\* PEM bytes, by what they decode to: valid is FALSE for bytes the PEM
\* parsers reject; certs are the certificates and keys the private keys
\* found in them.  A key is [type, id].
CertIDs == {"caA", "caB"}
KeyInputs == {[type |-> "rsa", id |-> "k1"], [type |-> "ecdsa", id |-> "k2"]}

\* certutil.ParseCertsPEM: (certs, err)
ParseCertsPEM(bytes) ==
    IF bytes.valid
    THEN [certs |-> bytes.certs, err |-> "nil"]
    ELSE [certs |-> <<>>, err |-> "ParseCertsPEM: malformed PEM"]

\* keyutil.ParsePrivateKeyPEM: (key, err)
ParsePrivateKeyPEM(bytes) ==
    IF bytes.valid /\ bytes.keys # <<>>
    THEN [key |-> Some(bytes.keys[1]), err |-> "nil"]
    ELSE [key |-> Nil, err |-> "ParsePrivateKeyPEM: no valid private key"]

\* a return of CAKeyPair: (rsaKey, cert, err), and the parsers run before it
CAReturn(rsaKey, cert, err, parsed) ==
    [rsaKey |-> rsaKey, cert |-> cert, err |-> err, parsed |-> parsed]

ErrCACertNotFound == "\"KubernetesCACertPath\" not found"
ErrCAKeyNotFound == "\"KubernetesCAKeyPath\" not found"
ErrNoCertificate == "ca.crt does not contain at least one valid certificate"
ErrNotRSA == "private key is not a RSA private key"

\* CAKeyPair once both entries have been found: parse and check them
ParseCAKeyPair(caCert, caKey) ==
    LET certs == ParseCertsPEM(caCert)
    IN  IF certs.err # "nil"
        THEN CAReturn(Nil, Nil, certs.err, <<"ParseCertsPEM">>)
        ELSE IF Len(certs.certs) = 0
        THEN CAReturn(Nil, Nil, ErrNoCertificate, <<"ParseCertsPEM">>)
        ELSE
        LET possibleKey == ParsePrivateKeyPEM(caKey)
            parsed == <<"ParseCertsPEM", "ParsePrivateKeyPEM">>
        IN  IF possibleKey.err # "nil"
            THEN CAReturn(Nil, Nil, possibleKey.err, parsed)
            ELSE IF possibleKey.key[1].type # "rsa"
            THEN CAReturn(Nil, Nil, ErrNotRSA, parsed)
            ELSE CAReturn(possibleKey.key, Some(certs.certs[1]), "nil",
                          parsed)

\* a CAKeyPair that looks for the key entry only when it needs the key
CAKeyPairLateKeyLookup(cfg) ==
    LET pki == cfg.KubernetesPKI
    IN  IF KubernetesCACertPath \notin DOMAIN pki
        THEN CAReturn(Nil, Nil, ErrCACertNotFound, <<>>)
        ELSE
        LET certs == ParseCertsPEM(pki[KubernetesCACertPath])
        IN  IF certs.err # "nil"
            THEN CAReturn(Nil, Nil, certs.err, <<"ParseCertsPEM">>)
            ELSE IF Len(certs.certs) = 0
            THEN CAReturn(Nil, Nil, ErrNoCertificate, <<"ParseCertsPEM">>)
            ELSE IF KubernetesCAKeyPath \notin DOMAIN pki
            THEN CAReturn(Nil, Nil, ErrCAKeyNotFound, <<"ParseCertsPEM">>)
            ELSE ParseCAKeyPair(pki[KubernetesCACertPath],
                                pki[KubernetesCAKeyPath])

CAKeyPair(cfg) ==
    LET pki == cfg.KubernetesPKI
    IN  IF KubernetesCACertPath \notin DOMAIN pki
        THEN CAReturn(Nil, Nil, ErrCACertNotFound, <<>>)
        ELSE IF KubernetesCAKeyPath \notin DOMAIN pki
        THEN CAReturn(Nil, Nil, ErrCAKeyNotFound, <<>>)
        ELSE ParseCAKeyPair(pki[KubernetesCACertPath],
                            pki[KubernetesCAKeyPath])

-----------------------------------------------------------------------------
(* pkg/certificate: NewSignedTLSCert *)

\* the fully qualified name joined without the empty last element
ServiceFQDNWithoutRootDot(serviceCommonName, domain) ==
    Join(<<serviceCommonName, domain>>, ".")

ServiceFQDNCommonName(serviceCommonName, domain) ==
    Join(<<serviceCommonName, domain, "">>, ".")

\* newPrivateKey and newSignedCert can fail; ok says whether they do not
NewSignedTLSCert(name, namespace, domain, caKey, caCert, keyOk, signOk) ==
    LET serviceCommonName == Join(<<name, namespace, "svc">>, ".")
        serviceFQDNCommonName ==
            ServiceFQDNCommonName(serviceCommonName, domain)
        altdnsNames == <<serviceFQDNCommonName, serviceCommonName>>
        certCfg == [AltNames |-> [DNSNames |-> altdnsNames],
                    CommonName |-> serviceCommonName,
                    Usages |-> <<"ExtKeyUsageServerAuth">>]
        newKPCert == [cfg |-> certCfg, key |-> "newKPKey",
                      signedBy |-> [cert |-> caCert, key |-> caKey]]
    IN  IF ~keyOk
        THEN [certCfg |-> Nil, bundle |-> Nil,
              err |-> "failed to generate private key"]
        ELSE IF ~signOk
        THEN [certCfg |-> Some(certCfg), bundle |-> Nil,
              err |-> "failed to generate certificate"]
        ELSE [certCfg |-> Some(certCfg),
              bundle |-> Some([TLSCertName |-> newKPCert,
                               TLSKeyName |-> "newKPKey",
                               KubernetesCACertName |-> caCert]),
              err |-> "nil"]

-----------------------------------------------------------------------------
(* The PKI bundles and service names the certificate functions are given *)

PEMInputs ==
    {[valid |-> FALSE, certs |-> <<>>, keys |-> <<>>]}
    \cup {[valid |-> TRUE, certs |-> c, keys |-> <<>>] :
              c \in SeqsUpTo(CertIDs, MaxCerts)}
    \cup {[valid |-> TRUE, certs |-> <<>>, keys |-> <<k>>] :
              k \in KeyInputs}

\* a map with the entries of m and one more
WithEntry(m, key, value) ==
    [k \in DOMAIN m \cup {key} |-> IF k = key THEN value ELSE m[k]]

EmptyMap == [k \in {} |-> ""]

PKIInputs ==
    {EmptyMap}
    \cup {WithEntry(EmptyMap, KubernetesCACertPath, c) : c \in PEMInputs}
    \cup {WithEntry(EmptyMap, KubernetesCAKeyPath, k) : k \in PEMInputs}
    \cup {WithEntry(WithEntry(EmptyMap, KubernetesCACertPath, c),
                    KubernetesCAKeyPath, k) :
              c \in PEMInputs, k \in PEMInputs}

ServiceNames == {"metrics-server", "webhook"}
Namespaces == {"kube-system", "default"}
Domains == {"cluster.local", "example.org"}

-----------------------------------------------------------------------------
(* The certificate functions as operations *)

CallCAKeyPair ==
    /\ caRet = Nil
    /\ caRet' = Some(CAKeyPair(config))
    /\ UNCHANGED <<config, leafArgs, leafRet, normVars, mcVars, hostVars>>

\* the leaf certificate is issued with the CA that CAKeyPair returned
CallNewSignedTLSCert ==
    /\ caRet # Nil
    /\ caRet[1].err = "nil"
    /\ \E name \in ServiceNames, namespace \in Namespaces,
          domain \in Domains, keyOk \in BOOLEAN, signOk \in BOOLEAN :
          /\ leafArgs' = Some([name |-> name, namespace |-> namespace,
                               domain |-> domain])
          /\ leafRet' = Some(NewSignedTLSCert(name, namespace, domain,
                                 caRet[1].rsaKey[1], caRet[1].cert[1],
                                 keyOk, signOk))
    /\ UNCHANGED <<config, caRet, normVars, mcVars, hostVars>>

\* the defaulting variables while the certificate functions are studied
NormIdle ==
    /\ input = BaseCluster
    /\ obj = BaseCluster
    /\ pre = BaseCluster
    /\ last = "none"
    /\ calls = 0

InitCert ==
    /\ config \in {[KubernetesPKI |-> pki] : pki \in PKIInputs}
    /\ caRet = Nil
    /\ leafArgs = Nil
    /\ leafRet = Nil
    /\ NormIdle
    /\ MCIdle
    /\ HostIdle

NextCert ==
    \/ CallCAKeyPair
    \/ CallNewSignedTLSCert

SpecCert == InitCert /\ [][NextCert]_vars

-----------------------------------------------------------------------------
(* machinecontroller: JSON payloads *)

\* JSON values inside a payload object: a string or an object of strings
JStr(x) == [t |-> "string", str |-> x, map |-> EmptyMap]
JObj(m) == [t |-> "object", str |-> "", map |-> m]

\* json.RawMessage, by what its bytes are: not JSON at all ("invalid"),
\* the JSON null, a JSON array, or a JSON object with its members in top
RawInvalid == [kind |-> "invalid", top |-> EmptyMap]
RawNull == [kind |-> "null", top |-> EmptyMap]
RawArray == [kind |-> "array", top |-> EmptyMap]
RawObject(members) == [kind |-> "object", top |-> members]

\* the value of a string member of a JSON object, "" when it is absent
StringMember(members, key) ==
    IF key \in DOMAIN members THEN members[key].str ELSE ""

\* the members of AWSSpec the model follows, by JSON name
AWSSpecStrings == {"ami", "region"}

\* a decoder of AWSSpec that does not read the "tags" member
UnmarshalAWSSpecWithoutTags(raw) ==
    IF raw.kind \in {"invalid", "array"}
    THEN [awsSpec |-> [AMI |-> "", Region |-> "", Tags |-> Nil],
          err |-> "json: cannot unmarshal"]
    ELSE [awsSpec |-> [AMI |-> StringMember(raw.top, "ami"),
                       Region |-> StringMember(raw.top, "region"),
                       Tags |-> Nil],
          err |-> "nil"]

\* json.Unmarshal(raw, &awsSpec): members AWSSpec does not declare are
\* dropped, a member of the wrong JSON type is an error
UnmarshalAWSSpec(raw) ==
    LET zero == [AMI |-> "", Region |-> "", Tags |-> Nil]
    IN  IF raw.kind \in {"invalid", "array"}
        THEN [awsSpec |-> zero, err |-> "json: cannot unmarshal"]
        ELSE IF raw.kind = "null"
        THEN [awsSpec |-> zero, err |-> "nil"]
        ELSE IF \/ \E k \in AWSSpecStrings \cap DOMAIN raw.top :
                      raw.top[k].t # "string"
                \/ "tags" \in DOMAIN raw.top /\ raw.top["tags"].t # "object"
        THEN [awsSpec |-> zero, err |-> "json: cannot unmarshal"]
        ELSE [awsSpec |->
                  [AMI |-> StringMember(raw.top, "ami"),
                   Region |-> StringMember(raw.top, "region"),
                   Tags |-> IF "tags" \in DOMAIN raw.top
                            THEN Some(raw.top["tags"].map)
                            ELSE Nil],
              err |-> "nil"]

\* json.Marshal(awsSpec), for an awsSpec whose Tags are not nil
MarshalAWSSpec(awsSpec) ==
    RawObject([k \in {"ami", "region", "tags"} |->
                  IF k = "ami" THEN JStr(awsSpec.AMI)
                  ELSE IF k = "region" THEN JStr(awsSpec.Region)
                  ELSE JObj(awsSpec.Tags[1])])

\* a decoder that takes a JSON array for an empty object
UnmarshalMapTakingArrays(raw) ==
    IF raw.kind = "invalid"
    THEN [spec |-> Some(EmptyMap), err |-> "json: cannot unmarshal"]
    ELSE IF raw.kind = "null"
    THEN [spec |-> Nil, err |-> "nil"]
    ELSE [spec |-> Some(raw.top), err |-> "nil"]

\* json.Unmarshal(raw, &spec) for spec a map[string]interface{}: the JSON
\* null sets the map to nil
UnmarshalMap(raw) ==
    IF raw.kind \in {"invalid", "array"}
    THEN [spec |-> Some(EmptyMap), err |-> "json: cannot unmarshal"]
    ELSE IF raw.kind = "null"
    THEN [spec |-> Nil, err |-> "nil"]
    ELSE [spec |-> Some(raw.top), err |-> "nil"]

\* json.Marshal(spec) for spec a map[string]interface{}: null for a nil map
MarshalMap(spec) ==
    IF spec = Nil THEN RawNull ELSE RawObject(spec[1])

\* errors.Wrap(err, message)
Wrap(err, message) == message \o ": " \o err

-----------------------------------------------------------------------------
(* machinecontroller: machineSpec *)

\* lines 200..206: the payload bytes decoded into the map that is returned
DecodedSpec(parsed) ==
    IF parsed.err # "nil"
    THEN [spec |-> Nil,
          err |-> Wrap(parsed.err, "unable to parse the workerset spec")]
    ELSE [spec |-> parsed.spec, err |-> "nil"]

\* lines 186..191: the decoded awsSpec with the cluster's tag set
Tagged(awsSpec, tagName, tagValue) ==
    [awsSpec EXCEPT
       !.Tags = Some(WithEntry(IF awsSpec.Tags = Nil THEN EmptyMap
                               ELSE awsSpec.Tags[1],
                               tagName, tagValue))]

\* lines 178..198, for aws what json.Unmarshal(specRaw, &awsSpec) gave:
\* the bytes that overwrite specRaw, or the error returned
AWSSpecRaw(cluster, aws) ==
    IF aws.err # "nil"
    THEN [specRaw |-> RawNull,
          err |-> Wrap(aws.err,
                       "could not parse AWS Spec for worker machines")]
    ELSE [specRaw |->
              MarshalAWSSpec(Tagged(aws.awsSpec,
                                    "kubernetes.io/cluster/" \o cluster.Name,
                                    "shared")),
          err |-> "nil"]

\* lines 193..206, for tagged what the AWS branch produced
DecodedAWSSpec(tagged) ==
    IF tagged.err # "nil"
    THEN [spec |-> Nil, err |-> tagged.err]
    ELSE DecodedSpec(UnmarshalMap(tagged.specRaw))

machineSpec(cluster, workerset, provider) ==
    IF workerset.Config.CloudProviderSpec = Nil
    THEN [spec |-> Nil, err |-> "could't find cloudProviderSpec"]
    ELSE IF provider.AWS # Nil
    THEN DecodedAWSSpec(
             AWSSpecRaw(cluster,
                 UnmarshalAWSSpec(workerset.Config.CloudProviderSpec[1])))
    ELSE DecodedSpec(UnmarshalMap(workerset.Config.CloudProviderSpec[1]))

-----------------------------------------------------------------------------
(* machinecontroller: createMachineDeployment *)

\* CloudProviderSpec.CloudProviderName()
CloudProviderName(provider) ==
    IF provider.AWS # Nil THEN "aws"
    ELSE IF provider.Hetzner # Nil THEN "hetzner"
    ELSE ""

\* labels.Merge(a, b): the entries of a, overridden and extended by b's
MergeLabels(a, b) ==
    [k \in DOMAIN a \cup DOMAIN b |-> IF k \in DOMAIN b THEN b[k] ELSE a[k]]

\* a policy that surges whether or not the pool has a network block
RollingUpdateAlwaysSurging(workerset) ==
    [MaxSurge |-> 1, MaxUnavailable |-> 0]

\* maxSurge and maxUnavailable as lines 114..125 leave them
RollingUpdate(workerset) ==
    LET maxSurge == 1
        maxUnavailable == 0
    IN  IF workerset.Config.Network # Nil
        THEN [MaxSurge |-> 0, MaxUnavailable |-> 1]
        ELSE [MaxSurge |-> maxSurge, MaxUnavailable |-> maxUnavailable]

\* a return of createMachineDeployment: (object, err), or a run-time panic
MDReturn(md, err, panicked) == [md |-> md, err |-> err, panicked |-> panicked]

\* lines 113..167: the object built from the cluster and the callee's
\* workerset, whose Config holds the re-encoded payload since line 100
MachineDeployment(cluster, workerset) ==
    [TypeMeta |-> [APIVersion |-> "", Kind |-> ""],
     ObjectMeta |-> [Annotations |-> workerset.Config.Annotations,
                     Namespace |-> "kube-system",
                     Name |-> workerset.Name],
     Spec |->
       [Paused |-> FALSE,
        \* int32(*workerset.Replicas): every replica count of the model
        \* lies within the int32 range, where the conversion keeps the value
        Replicas |-> workerset.Replicas[1],
        Selector |->
          [MatchLabels |-> WithEntry(EmptyMap, "workerset", workerset.Name)],
        Strategy |-> [Type |-> "RollingUpdate",
                      RollingUpdate |-> RollingUpdate(workerset)],
        MinReadySeconds |-> 0,
        Template |->
          [Labels |->
             MergeLabels(workerset.Config.Labels,
                         WithEntry(EmptyMap, "workerset", workerset.Name)),
           Annotations |-> workerset.Config.MachineAnnotations,
           Kubelet |-> cluster.Versions.Kubernetes,
           \* lines 102..108: the Config with the cloudProvider member
           ProviderSpec |->
             [ProviderSpec |-> workerset.Config,
              cloudProvider |-> CloudProviderName(cluster.CloudProvider)],
           Taints |-> workerset.Config.Taints]]]

\* lines 91..167, for cloudProviderSpec what machineSpec returned
Generate(cluster, workerset, cloudProviderSpec) ==
    IF cloudProviderSpec.err # "nil"
    THEN MDReturn(Nil, Wrap(cloudProviderSpec.err,
                            "failed to generate machineSpec"), FALSE)
    ELSE IF workerset.Replicas = Nil
    THEN MDReturn(Nil, "nil", TRUE)
    ELSE MDReturn(
           Some(MachineDeployment(
                    cluster,
                    [workerset EXCEPT !.Config.CloudProviderSpec =
                        Some(MarshalMap(cloudProviderSpec.spec))])),
           "nil", FALSE)

createMachineDeployment(cluster, workerset) ==
    Generate(cluster, workerset,
             machineSpec(cluster, workerset, cluster.CloudProvider))

\* a callee that assigns line 100 through to the caller's pool
WorkersetWrittenThrough(cluster, workerset) ==
    LET cloudProviderSpec ==
            machineSpec(cluster, workerset, cluster.CloudProvider)
    IN  IF cloudProviderSpec.err # "nil"
        THEN workerset
        ELSE [workerset EXCEPT !.Config.CloudProviderSpec =
                                   Some(MarshalMap(cloudProviderSpec.spec))]

\* the caller's pool after createMachineDeployment(cluster, workerset) has
\* returned or panicked: workerset is passed by value, so the assignment
\* of line 100 lands in the callee's copy, and machineSpec decodes the
\* payload into an awsSpec and a map of its own
CallerWorkerset(cluster, workerset) == workerset

\* the cluster after the loop over DynamicWorkers has called
\* createMachineDeployment for the pools from..to
RECURSIVE ClusterAfter(_, _, _)
ClusterAfter(cluster, from, to) ==
    IF from > to THEN cluster
    ELSE ClusterAfter(
             [cluster EXCEPT !.DynamicWorkers[from] =
                 CallerWorkerset(cluster, cluster.DynamicWorkers[from])],
             from + 1, to)

-----------------------------------------------------------------------------
(* machinecontroller: the states CreateMachineDeployments is given *)

BaseProviderSpec ==
    [CloudProviderSpec |-> Nil, Network |-> Nil,
     Labels |-> EmptyMap, Annotations |-> EmptyMap,
     MachineAnnotations |-> EmptyMap, Taints |-> <<>>]

PayloadPlain ==
    RawObject(WithEntry(EmptyMap, "region", JStr("eu-west-1")))

PayloadTagged ==
    RawObject(WithEntry(PayloadPlain.top, "tags",
                        JObj(WithEntry(EmptyMap, "team", "infra"))))

\* a payload whose tag map already holds the cluster-ownership tag of the
\* cluster "prod", with another value
PayloadOwned ==
    RawObject(WithEntry(PayloadPlain.top, "tags",
                        JObj(WithEntry(WithEntry(EmptyMap, "team", "infra"),
                                       "kubernetes.io/cluster/prod",
                                       "owned"))))

\* a JSON object whose "tags" member is a string, not an object
PayloadBadTags ==
    RawObject(WithEntry(PayloadPlain.top, "tags", JStr("infra")))

PayloadInputs == {Nil, Some(RawInvalid), Some(RawNull), Some(RawArray),
                  Some(PayloadPlain), Some(PayloadTagged),
                  Some(PayloadOwned), Some(PayloadBadTags)}

\* a sound pool: a payload that decodes and a replica count
BasePool ==
    [Name |-> "pool", Replicas |-> Some(3),
     Config |-> [BaseProviderSpec EXCEPT
                   !.CloudProviderSpec = Some(PayloadPlain)]]

PoolInputs ==
    {[BasePool EXCEPT !.Config.CloudProviderSpec = raw] :
        raw \in PayloadInputs}
    \cup {[BasePool EXCEPT !.Replicas = Nil,
                           !.Config.CloudProviderSpec = raw] :
             raw \in {Nil, Some(RawInvalid), Some(PayloadPlain)}}
    \cup {[BasePool EXCEPT
             !.Config.Network = Some([CIDR |-> "192.168.1.10/24"]),
             !.Config.Labels = WithEntry(EmptyMap, "tier", "batch")]}

\* pool k of a cluster is named after its place in DynamicWorkers
Named(pools) ==
    [k \in 1..Len(pools) |->
        [pools[k] EXCEPT !.Name = IF k = 1 THEN "pool1"
                                  ELSE IF k = 2 THEN "pool2"
                                  ELSE "pool3"]]

MCCloudProviderInputs ==
    {[AWS |-> Nil, Hetzner |-> Some(EmptyStruct)],
     [AWS |-> Some(EmptyStruct), Hetzner |-> Nil]}

StateInputs ==
    {[DynamicClient |-> client,
      Cluster |-> Some([Name |-> "prod",
                        CloudProvider |-> provider,
                        Versions |-> [Kubernetes |-> "1.23.0"],
                        DynamicWorkers |-> Named(pools)])] :
        client \in {Nil, Some(EmptyStruct)},
        provider \in MCCloudProviderInputs,
        pools \in SeqsUpTo(PoolInputs, MaxPools)}

-----------------------------------------------------------------------------
(* machinecontroller: CreateMachineDeployments, one loop round at a time *)

\* a loop that goes on after CreateMachineDeployments has returned
RunningPastReturn == TRUE

Running == ret = Nil

\* s.DynamicClient == nil: the error return before the loop
CreateMachineDeployments_NoClient ==
    /\ Running
    /\ state.DynamicClient = Nil
    /\ ret' = Some("kubernetes dynamic client in not initialized")
    /\ UNCHANGED <<state, done, applied, manifest, normVars, certVars, hostVars>>

\* one round of the loop over s.Cluster.DynamicWorkers: generate the
\* object, then clientutil.CreateOrUpdate, which the controller can refuse
CreateMachineDeployments_Workerset ==
    /\ Running
    /\ state.DynamicClient # Nil
    /\ done < Len(state.Cluster[1].DynamicWorkers)
    /\ \E gen \in {createMachineDeployment(
                         state.Cluster[1],
                         state.Cluster[1].DynamicWorkers[done + 1])} :
           IF gen.panicked
           THEN /\ ret' = Some("panic: nil pointer dereference")
                /\ UNCHANGED <<done, applied>>
           ELSE IF gen.err # "nil"
           THEN /\ ret' = Some(Wrap(gen.err,
                                    "failed to generate MachineDeployment"))
                /\ UNCHANGED <<done, applied>>
           ELSE \E err \in {"nil", "connection refused"} :
                    /\ applied' = Append(applied,
                                         [obj |-> gen.md[1], err |-> err])
                    /\ IF err = "nil"
                       THEN done' = done + 1 /\ UNCHANGED ret
                       ELSE /\ ret' = Some(Wrap(err,
                                       "failed to ensure MachineDeployment"))
                            /\ UNCHANGED done
    /\ state' = [state EXCEPT !.Cluster =
                     Some(ClusterAfter(state.Cluster[1], done + 1, done + 1))]
    /\ UNCHANGED <<manifest, normVars, certVars, hostVars>>

\* the loop is over: return nil
CreateMachineDeployments_Return ==
    /\ Running
    /\ state.DynamicClient # Nil
    /\ done = Len(state.Cluster[1].DynamicWorkers)
    /\ ret' = Some("nil")
    /\ UNCHANGED <<state, done, applied, manifest, normVars, certVars, hostVars>>

-----------------------------------------------------------------------------
(* machinecontroller: GenerateMachineDeploymentsManifest *)

\* a loop that returns the objects generated before the failing pool
RECURSIVE ManifestObjectsKeptOnError(_, _, _)
ManifestObjectsKeptOnError(cluster, k, objs) ==
    IF k > Len(cluster.DynamicWorkers)
    THEN [objs |-> objs, err |-> "nil", panicked |-> FALSE,
          cluster |-> cluster]
    ELSE LET gen == createMachineDeployment(cluster,
                                            cluster.DynamicWorkers[k])
         IN  IF gen.panicked
             THEN [objs |-> objs, err |-> "nil", panicked |-> TRUE,
                   cluster |-> cluster]
             ELSE IF gen.err # "nil"
             THEN [objs |-> objs,
                   err |-> Wrap(gen.err,
                                "failed to generate MachineDeployment"),
                   panicked |-> FALSE, cluster |-> cluster]
             ELSE ManifestObjectsKeptOnError(cluster, k + 1,
                      Append(objs,
                             [gen.md[1] EXCEPT !.TypeMeta =
                                 [APIVersion |-> "cluster.k8s.io/v1alpha1",
                                  Kind |-> "MachineDeployment"]]))

\* the loop over s.Cluster.DynamicWorkers from pool k on: the objects so
\* far, or the first error or panic; cluster is the cluster as the rounds
\* before k have left it
RECURSIVE ManifestObjects(_, _, _)

\* lines 74..83, for gen what createMachineDeployment returned for pool k
ManifestRound(cluster, k, objs, gen) ==
    IF gen.panicked
    THEN [objs |-> <<>>, err |-> "nil", panicked |-> TRUE,
          cluster |-> ClusterAfter(cluster, k, k)]
    ELSE IF gen.err # "nil"
    THEN [objs |-> <<>>,
          err |-> Wrap(gen.err, "failed to generate MachineDeployment"),
          panicked |-> FALSE, cluster |-> ClusterAfter(cluster, k, k)]
    ELSE ManifestObjects(
             ClusterAfter(cluster, k, k), k + 1,
             Append(objs,
                    [gen.md[1] EXCEPT !.TypeMeta =
                        [APIVersion |-> "cluster.k8s.io/v1alpha1",
                         Kind |-> "MachineDeployment"]]))

ManifestObjects(cluster, k, objs) ==
    IF k > Len(cluster.DynamicWorkers)
    THEN [objs |-> objs, err |-> "nil", panicked |-> FALSE,
          cluster |-> cluster]
    ELSE ManifestRound(cluster, k, objs,
                       createMachineDeployment(cluster,
                                               cluster.DynamicWorkers[k]))

\* what the call returns, with the cluster as it leaves it; the text
\* templates.KubernetesToYAML makes of objs is the sequence of the YAML
\* documents in it, "" being <<>>
GenerateMachineDeploymentsManifest(st) ==
    IF Len(st.Cluster[1].DynamicWorkers) = 0
    THEN [objs |-> <<>>, err |-> "nil", panicked |-> FALSE,
          cluster |-> st.Cluster[1]]
    ELSE ManifestObjects(st.Cluster[1], 1, <<>>)

CallGenerateMachineDeploymentsManifest ==
    /\ manifest = Nil
    /\ \E r \in {GenerateMachineDeploymentsManifest(state)} :
           /\ manifest' = Some([text |-> r.objs, err |-> r.err,
                                panicked |-> r.panicked])
           /\ state' = [state EXCEPT !.Cluster = Some(r.cluster)]
    /\ UNCHANGED <<done, applied, ret, normVars, certVars, hostVars>>

InitMC ==
    /\ state \in StateInputs
    /\ done = 0
    /\ applied = <<>>
    /\ ret = Nil
    /\ manifest = Nil
    /\ NormIdle
    /\ CertIdle
    /\ HostIdle

NextMC ==
    \/ CreateMachineDeployments_NoClient
    \/ CreateMachineDeployments_Workerset
    \/ CreateMachineDeployments_Return
    \/ CallGenerateMachineDeploymentsManifest

SpecMC == InitMC /\ [][NextMC]_vars

-----------------------------------------------------------------------------
(* defaultHostConfig on one host *)

\* the hosts a user can write, by the fields defaultHostConfig reads
HostConfigInputs ==
    {[BaseHost EXCEPT !.PublicAddress = a[1], !.PrivateAddress = a[2],
                      !.SSHPrivateKeyFile = key, !.SSHAgentSocket = sock,
                      !.SSHUsername = user, !.SSHPort = port,
                      !.BastionPort = bport, !.BastionUser = buser] :
        a \in {<<"", "">>, <<"203.0.113.10", "">>, <<"", "10.0.0.10">>,
               <<"203.0.113.10", "10.0.0.10">>},
        key \in {"", "/home/ops/.ssh/id_rsa"},
        sock \in {"", "/run/ssh-agent.sock"},
        user \in {"", "ubuntu"}, port \in {0, 2222},
        bport \in {0, 2200}, buser \in {"", "jump"}}

CallDefaultHostConfig ==
    /\ hostCalls < MaxCalls
    /\ host' = defaultHostConfig(host)
    /\ hostCalls' = hostCalls + 1
    /\ UNCHANGED <<hostIn, normVars, certVars, mcVars>>

InitHost ==
    /\ hostIn \in HostConfigInputs
    /\ host = hostIn
    /\ hostCalls = 0
    /\ NormIdle
    /\ CertIdle
    /\ MCIdle

NextHost == CallDefaultHostConfig

SpecHost == InitHost /\ [][NextHost]_vars

-----------------------------------------------------------------------------
(* Properties of the defaulting functions *)

Normalized == last = "SetDefaults_KubeOneCluster"
HostsDefaulted == last \in {"SetDefaults_Hosts", "SetDefaults_KubeOneCluster"}
Leaders(hosts) == {k \in 1..Len(hosts) : hosts[k].IsLeader}

\* C1: normalization is idempotent: applying SetDefaults_KubeOneCluster to
\* a cluster that is already the result of SetDefaults_KubeOneCluster
\* changes no field of it.
C1_Idempotent ==
    (Normalized /\ pre = SetDefaults_KubeOneCluster(input)) => obj = pre

\* C2: after SetDefaults_Hosts a non-empty control-plane host list has
\* exactly one host with IsLeader set, whatever flags the input carried.
C2_ExactlyOneLeader ==
    (last = "SetDefaults_Hosts" /\ Len(obj.ControlPlane.Hosts) >= 1)
        => Cardinality(Leaders(obj.ControlPlane.Hosts)) = 1

\* C3: when no control-plane host of a non-empty list carries the leader
\* flag, host 0 alone is leader afterwards; when exactly one host carries
\* it, that host alone is leader afterwards.
C3_DefaultLeader ==
    (HostsDefaulted /\ Len(pre.ControlPlane.Hosts) >= 1)
        => /\ Len(obj.ControlPlane.Hosts) = Len(pre.ControlPlane.Hosts)
           /\ Leaders(pre.ControlPlane.Hosts) = {}
                  => Leaders(obj.ControlPlane.Hosts) = {1}
           /\ Cardinality(Leaders(pre.ControlPlane.Hosts)) = 1
                  => Leaders(obj.ControlPlane.Hosts)
                         = Leaders(pre.ControlPlane.Hosts)

\* C3 witness: two unflagged control-plane hosts were defaulted and the
\* first one has become the leader.
C3_Witness ==
    /\ last = "SetDefaults_Hosts"
    /\ Len(pre.ControlPlane.Hosts) = 2
    /\ Leaders(pre.ControlPlane.Hosts) = {}
    /\ Leaders(obj.ControlPlane.Hosts) = {1}

\* C4: after host defaulting control-plane host i has ID i and static
\* worker j has ID (number of control-plane hosts) + j, for every input,
\* also one without control-plane hosts.
C4_ContiguousIDs ==
    HostsDefaulted
        => /\ \A k \in 1..Len(obj.ControlPlane.Hosts) :
                  obj.ControlPlane.Hosts[k].ID = k - 1
           /\ \A k \in 1..Len(obj.StaticWorkers.Hosts) :
                  obj.StaticWorkers.Hosts[k].ID
                      = Len(obj.ControlPlane.Hosts) + (k - 1)

CanalMTUUnset(o) ==
    \/ o.ClusterNetwork.CNI = Nil
    \/ /\ o.ClusterNetwork.CNI[1].Canal # Nil
       /\ o.ClusterNetwork.CNI[1].Canal[1].MTU = 0

CanalMTUSet(o) ==
    /\ o.ClusterNetwork.CNI # Nil
    /\ o.ClusterNetwork.CNI[1].Canal # Nil
    /\ o.ClusterNetwork.CNI[1].Canal[1].MTU # 0

\* C5: an unset Canal MTU becomes 8951 with the AWS provider and 1450
\* with no recognized provider; an MTU the user set is kept.
C5_CanalMTU ==
    last = "SetDefaults_ClusterNetwork"
        => /\ (CanalMTUUnset(pre) /\ pre.CloudProvider.AWS # Nil)
                  => obj.ClusterNetwork.CNI[1].Canal[1].MTU = 8951
           /\ (CanalMTUUnset(pre)
                   /\ pre.CloudProvider = BaseCluster.CloudProvider)
                  => obj.ClusterNetwork.CNI[1].Canal[1].MTU = 1450
           /\ CanalMTUSet(pre)
                  => obj.ClusterNetwork.CNI[1].Canal[1].MTU
                         = pre.ClusterNetwork.CNI[1].Canal[1].MTU

\* the versions of VersionInputs, and what is left of them once a leading
\* "v" is gone, that read as a version at or above 1.22
VersionsAtLeast122 ==
    {<<"v", "1", ".", "2", "3", ".", "0">>,
     <<"1", ".", "2", "3", ".", "0">>,
     <<"1", ".", "2", "2", ".", "0">>,
     <<"1", ".", "2", "2">>,
     <<"2", ".", "0", ".", "0">>,
     <<"v", "2">>,
     <<"2">>,
     <<"v", "v", "1", ".", "2", "3", ".", "0">>}

NoRuntime == [Docker |-> Nil, Containerd |-> Nil]

\* C7: normalization strips one leading "v" from the Kubernetes version
\* ("v1.23.0" becomes "1.23.0"); with no runtime chosen, containerd is
\* selected exactly for the versions at or above 1.22 and nothing is
\* selected for older or unparsable versions; a chosen runtime is kept.
C7_VersionAndRuntime ==
    Normalized
        => /\ obj.Versions.Kubernetes
                  = IF pre.Versions.Kubernetes # <<>>
                       /\ Head(pre.Versions.Kubernetes) = "v"
                    THEN Tail(pre.Versions.Kubernetes)
                    ELSE pre.Versions.Kubernetes
           /\ pre.Versions.Kubernetes = <<"v", "1", ".", "2", "3", ".", "0">>
                  => obj.Versions.Kubernetes = <<"1", ".", "2", "3", ".", "0">>
           /\ pre.ContainerRuntime = NoRuntime
                  => /\ obj.ContainerRuntime.Docker = Nil
                     /\ obj.ContainerRuntime.Containerd # Nil
                            <=> pre.Versions.Kubernetes \in VersionsAtLeast122
           /\ pre.ContainerRuntime # NoRuntime
                  => obj.ContainerRuntime = pre.ContainerRuntime

\* C7 witness: "v1.23.0" with no runtime chosen was normalized to "1.23.0"
\* with containerd.
C7_Witness ==
    /\ Normalized
    /\ pre.Versions.Kubernetes = <<"v", "1", ".", "2", "3", ".", "0">>
    /\ pre.ContainerRuntime = NoRuntime
    /\ obj.Versions.Kubernetes = <<"1", ".", "2", "3", ".", "0">>
    /\ obj.ContainerRuntime.Containerd # Nil

-----------------------------------------------------------------------------
(* Properties of pkg/certificate *)

\* the request NewSignedTLSCert built, if it got as far as building one
RequestBuilt == leafRet # Nil /\ leafRet[1].certCfg # Nil
ServiceName(args) == args.name \o "." \o args.namespace \o ".svc"
DNSNameSet(cfg) ==
    {cfg.AltNames.DNSNames[k] : k \in 1..Len(cfg.AltNames.DNSNames)}

HasCert == KubernetesCACertPath \in DOMAIN config.KubernetesPKI
HasKey == KubernetesCAKeyPath \in DOMAIN config.KubernetesPKI
CertBytes == config.KubernetesPKI[KubernetesCACertPath]
KeyBytes == config.KubernetesPKI[KubernetesCAKeyPath]
CertsParse == CertBytes.valid
KeyParses == KeyBytes.valid /\ KeyBytes.keys # <<>>

\* C8: CAKeyPair fails with a not-found error, before any parsing, when
\* the certificate entry or else the key entry is absent; with the
\* empty-certificate error when the certificate entry parses to no
\* certificate; with the key-type error when the key it parses is not an
\* RSA key; and otherwise, when both entries parse, it returns the RSA key
\* and the first certificate.  It succeeds in no other case.
C8_LoadCA ==
    caRet # Nil
        => LET r == caRet[1]
               failed == r.err # "nil" /\ r.rsaKey = Nil /\ r.cert = Nil
           IN  /\ ~HasCert
                      => failed /\ r.err = ErrCACertNotFound
                                /\ r.parsed = <<>>
               /\ (HasCert /\ ~HasKey)
                      => failed /\ r.err = ErrCAKeyNotFound
                                /\ r.parsed = <<>>
               /\ (HasCert /\ HasKey /\ CertsParse
                       /\ CertBytes.certs = <<>>)
                      => failed /\ r.err = ErrNoCertificate
               /\ (HasCert /\ HasKey /\ CertsParse
                       /\ CertBytes.certs # <<>> /\ KeyParses
                       /\ KeyBytes.keys[1].type # "rsa")
                      => failed /\ r.err = ErrNotRSA
               /\ (HasCert /\ HasKey /\ CertsParse
                       /\ CertBytes.certs # <<>> /\ KeyParses
                       /\ KeyBytes.keys[1].type = "rsa")
                      => /\ r.err = "nil"
                         /\ r.rsaKey = <<KeyBytes.keys[1]>>
                         /\ r.cert = <<CertBytes.certs[1]>>
               /\ r.err = "nil"
                      => /\ HasCert /\ HasKey
                         /\ CertsParse /\ CertBytes.certs # <<>>
                         /\ KeyParses /\ KeyBytes.keys[1].type = "rsa"
               /\ r.err # "nil" => failed

\* C8 witness: a bundle with two certificates and an RSA key was loaded
\* and the first certificate came back.
C8_Witness ==
    /\ caRet # Nil
    /\ caRet[1].err = "nil"
    /\ HasCert
    /\ CertBytes.certs = <<"caB", "caA">>
    /\ caRet[1].cert = <<"caB">>
    /\ caRet[1].rsaKey # Nil

-----------------------------------------------------------------------------
(* Properties of the machinecontroller generator *)

Pools == state.Cluster[1].DynamicWorkers
Crashed == "panic: nil pointer dereference"

\* the pools before the first one without a replica count all generate
PoolWithoutReplicasIsReached ==
    \E k \in 1..Len(Pools) :
        /\ Pools[k].Replicas = Nil
        /\ machineSpec(state.Cluster[1], Pools[k],
                       state.Cluster[1].CloudProvider).err = "nil"
        /\ \A j \in 1..(k - 1) :
               /\ Pools[j].Replicas # Nil
               /\ createMachineDeployment(state.Cluster[1], Pools[j]).err
                      = "nil"

\* C9: generating from a pool whose Replicas is unset ends in an error,
\* not in a crash and not in a descriptor, and every descriptor that is
\* produced carries the replica count of its pool.
C9_UnsetReplicasIsAnError ==
    /\ manifest # Nil
           => /\ ~manifest[1].panicked
              /\ PoolWithoutReplicasIsReached
                     => manifest[1].err # "nil" /\ manifest[1].text = <<>>
              /\ \A k \in 1..Len(manifest[1].text) :
                     <<manifest[1].text[k].Spec.Replicas>> = Pools[k].Replicas
    /\ ret # Nil => ret[1] # Crashed
    /\ \A k \in 1..Len(applied) :
           <<applied[k].obj.Spec.Replicas>> = Pools[k].Replicas

\* what CreateMachineDeployments returns when generation has not failed
NotGenerationErrors ==
    {"nil", Crashed, "kubernetes dynamic client in not initialized",
     Wrap("connection refused", "failed to ensure MachineDeployment")}

\* C10: when CreateMachineDeployments returns a generation error, no
\* create-or-update has been sent to the controller in that run.
C10_DefectBeforeAnySideEffect ==
    (ret # Nil /\ ret[1] \notin NotGenerationErrors) => applied = <<>>

-----------------------------------------------------------------------------
(* Properties of the generated descriptors *)

AWSCluster == state.Cluster[1].CloudProvider.AWS # Nil

\* the descriptors generation has handed out so far, each with its pool:
\* the objects sent to the controller and the documents of the manifest
Generated ==
    {[pool |-> Pools[k], md |-> applied[k].obj] : k \in 1..Len(applied)}
    \cup (IF manifest = Nil THEN {}
          ELSE {[pool |-> Pools[k], md |-> manifest[1].text[k]] :
                   k \in 1..Len(manifest[1].text)})

\* the provider payload inside a descriptor
PayloadOf(md) ==
    md.Spec.Template.ProviderSpec.ProviderSpec.CloudProviderSpec[1]

\* the tag map of a payload, empty when the payload has none
TagsOf(raw) ==
    IF raw.kind = "object" /\ "tags" \in DOMAIN raw.top
    THEN raw.top["tags"].map
    ELSE EmptyMap

OwnershipTag == "kubernetes.io/cluster/" \o state.Cluster[1].Name

\* C11: a descriptor generated for an AWS pool carries a tag map holding
\* the cluster-ownership tag with value "shared" beside every other tag
\* of the pool's payload with its value, and nothing else; for another
\* provider the payload of the descriptor is the payload of the pool.
C11_OwnershipTag ==
    \A g \in Generated :
        LET in == g.pool.Config.CloudProviderSpec[1]
            out == PayloadOf(g.md)
        IN  IF AWSCluster
            THEN /\ out.kind = "object"
                 /\ "tags" \in DOMAIN out.top
                 /\ out.top["tags"].t = "object"
                 /\ LET before == TagsOf(in)
                        after == out.top["tags"].map
                    IN  /\ DOMAIN after = DOMAIN before \cup {OwnershipTag}
                        /\ after[OwnershipTag] = "shared"
                        /\ Cardinality({k \in DOMAIN after :
                                           k = OwnershipTag}) = 1
                        /\ \A k \in DOMAIN before \ {OwnershipTag} :
                               after[k] = before[k]
            ELSE out = in

C11_Witness ==
    /\ AWSCluster
    /\ \E g \in Generated :
           /\ g.pool.Config.CloudProviderSpec = Some(PayloadOwned)
           /\ TagsOf(PayloadOf(g.md))["team"] = "infra"
           /\ TagsOf(PayloadOf(g.md))["kubernetes.io/cluster/prod"]
                  = "shared"
    /\ \E g \in Generated :
           /\ g.pool.Config.CloudProviderSpec = Some(PayloadPlain)
           /\ DOMAIN TagsOf(PayloadOf(g.md))
                  = {"kubernetes.io/cluster/prod"}

\* C12: a descriptor of a pool with a network block has maxSurge 0 and
\* maxUnavailable 1, a descriptor of any other pool has maxSurge 1 and
\* maxUnavailable 0.
C12_RollingUpdate ==
    \A g \in Generated :
        LET policy == g.md.Spec.Strategy.RollingUpdate
        IN  /\ g.pool.Config.Network # Nil
                   => policy = [MaxSurge |-> 0, MaxUnavailable |-> 1]
            /\ g.pool.Config.Network = Nil
                   => policy = [MaxSurge |-> 1, MaxUnavailable |-> 0]
            /\ {policy.MaxSurge, policy.MaxUnavailable} = {0, 1}

C12_Witness ==
    /\ \E g \in Generated :
           /\ g.pool.Config.Network # Nil
           /\ g.md.Spec.Strategy.RollingUpdate.MaxUnavailable = 1
    /\ \E g \in Generated :
           /\ g.pool.Config.Network = Nil
           /\ g.md.Spec.Strategy.RollingUpdate.MaxSurge = 1

-----------------------------------------------------------------------------
(* Properties of the generator's failures *)

\* the pool has no provider payload
Missing(pool) == pool.Config.CloudProviderSpec = Nil

\* the pool's payload is there and does not parse: it is not JSON, or a
\* JSON array, or for AWS an object with a member of another JSON type
\* than AWSSpec declares
Undecodable(pool) ==
    /\ ~Missing(pool)
    /\ LET raw == pool.Config.CloudProviderSpec[1]
       IN  \/ raw.kind \in {"invalid", "array"}
           \/ /\ AWSCluster
              /\ raw.kind = "object"
              /\ \E k \in DOMAIN raw.top \cap {"ami", "region", "tags"} :
                     raw.top[k].t # (IF k = "tags" THEN "object"
                                     ELSE "string")

Sound(pool) == ~Missing(pool) /\ ~Undecodable(pool) /\ pool.Replicas # Nil

\* the first pool generation does not get past, 0 if there is none
FirstUnsound ==
    IF \A k \in 1..Len(Pools) : Sound(Pools[k]) THEN 0
    ELSE CHOOSE k \in 1..Len(Pools) :
             /\ ~Sound(Pools[k])
             /\ \A j \in 1..(k - 1) : Sound(Pools[j])

MissingPayloadError ==
    "failed to generate MachineDeployment: failed to generate machineSpec: "
        \o "could't find cloudProviderSpec"

DecodeError ==
    "failed to generate MachineDeployment: failed to generate machineSpec: "
        \o (IF AWSCluster
            THEN "could not parse AWS Spec for worker machines"
            ELSE "unable to parse the workerset spec")
        \o ": json: cannot unmarshal"

\* the error generation from this pool is to end with, "" if none is stated
StatedError(pool) ==
    IF Missing(pool) THEN MissingPayloadError
    ELSE IF Undecodable(pool) THEN DecodeError
    ELSE ""

\* CreateMachineDeployments has returned out of generating pool done + 1
ReturnedFromGeneration ==
    /\ ret # Nil
    /\ state.DynamicClient # Nil
    /\ Len(applied) = done
    /\ done < Len(Pools)

\* C13: generation from a pool without a payload ends with the
\* missing-payload error, whatever else is wrong with the pool, and from a
\* pool whose payload does not parse with a decode error; neither call
\* hands out a descriptor for that pool.
C13_PayloadErrors ==
    /\ (manifest # Nil /\ FirstUnsound # 0
            /\ StatedError(Pools[FirstUnsound]) # "")
           => manifest[1] = [text |-> <<>>,
                             err |-> StatedError(Pools[FirstUnsound]),
                             panicked |-> FALSE]
    /\ (ReturnedFromGeneration /\ StatedError(Pools[done + 1]) # "")
           => ret[1] = StatedError(Pools[done + 1])
    /\ \A g \in Generated : StatedError(g.pool) = ""

C13_Witness ==
    /\ manifest # Nil
    /\ ReturnedFromGeneration
    /\ Len(Pools) = 2
    /\ Missing(Pools[1]) /\ Pools[1].Replicas = Nil
    /\ ret[1] = MissingPayloadError
    /\ manifest[1].err = MissingPayloadError

\* C14: GenerateMachineDeploymentsManifest returns the empty text and no
\* error for zero pools; one document per pool, in pool order, each of
\* kind MachineDeployment and API version cluster.k8s.io/v1alpha1, when
\* every pool generates; and the empty text with an error, never a part
\* of the documents, when a pool's generation returns an error.
C14_Manifest ==
    manifest # Nil =>
        /\ Len(Pools) = 0
               => manifest[1] = [text |-> <<>>, err |-> "nil",
                                 panicked |-> FALSE]
        /\ FirstUnsound = 0
               => /\ manifest[1].err = "nil"
                  /\ ~manifest[1].panicked
                  /\ Len(manifest[1].text) = Len(Pools)
                  /\ \A k \in 1..Len(Pools) :
                         /\ manifest[1].text[k].ObjectMeta.Name
                                = Pools[k].Name
                         /\ manifest[1].text[k].TypeMeta
                                = [APIVersion |-> "cluster.k8s.io/v1alpha1",
                                   Kind |-> "MachineDeployment"]
        /\ (FirstUnsound # 0 /\ StatedError(Pools[FirstUnsound]) # "")
               => manifest[1].err # "nil" /\ manifest[1].text = <<>>
        /\ manifest[1].err # "nil" => manifest[1].text = <<>>
        /\ Len(manifest[1].text) \in {0, Len(Pools)}

C14_Witness ==
    /\ manifest # Nil
    /\ Len(Pools) = 2
    /\ Len(manifest[1].text) = 2
    /\ manifest[1].text[1].ObjectMeta.Name = "pool1"
    /\ manifest[1].text[2].ObjectMeta.Name = "pool2"
    /\ manifest[1].text[2].TypeMeta.Kind = "MachineDeployment"

-----------------------------------------------------------------------------
(* Properties of CreateMachineDeployments *)

ErrNoClient == "kubernetes dynamic client in not initialized"

\* the create-or-update calls sent so far are for pools 1, 2, .. in this
\* order, one each, and only the last of them can have failed
AppliedInOrder ==
    /\ Len(applied) <= Len(Pools)
    /\ \A k \in 1..Len(applied) :
           /\ applied[k].obj.ObjectMeta.Name = Pools[k].Name
           /\ k < Len(applied) => applied[k].err = "nil"

\* what a step leaves of the calls sent before it, and what can follow a
\* return
NoRollbackNoLaterPool ==
    /\ Len(applied') >= Len(applied)
    /\ SubSeq(applied', 1, Len(applied)) = applied
    /\ ret # Nil => applied' = applied /\ ret' = ret

\* C19: without a dynamic client CreateMachineDeployments returns an error
\* and sends nothing; otherwise it sends one create-or-update per pool in
\* the order of the spec, stops at the first pool whose generation or
\* create-or-update returns an error and returns that error, leaves what
\* it has sent before in place, and returns nil only after a successful
\* create-or-update for every pool.
C19_ApplyInOrder ==
    /\ [](/\ state.DynamicClient = Nil
              => /\ applied = <<>>
                 /\ ret \in {Nil, Some(ErrNoClient)}
          /\ AppliedInOrder
          /\ (Len(applied) > 0 /\ applied[Len(applied)].err # "nil")
              => ret = Some("failed to ensure MachineDeployment: "
                                \o applied[Len(applied)].err)
          /\ (ReturnedFromGeneration /\ StatedError(Pools[done + 1]) # "")
              => ret = Some(StatedError(Pools[done + 1]))
          /\ ret = Some("nil")
              => /\ Len(applied) = Len(Pools)
                 /\ \A k \in 1..Len(applied) : applied[k].err = "nil")
    /\ [][NoRollbackNoLaterPool]_vars

C19_Witness ==
    /\ Len(Pools) = 2
    /\ Len(applied) = 2
    /\ applied[1].err = "nil"
    /\ applied[2].err = "connection refused"
    /\ ret = Some("failed to ensure MachineDeployment: connection refused")

\* every descriptor handed out so far is what generating from the state
\* as it is now yields for its pool
Regenerates ==
    /\ \A k \in 1..Len(applied) :
           createMachineDeployment(state.Cluster[1], Pools[k]).md
               = <<applied[k].obj>>
    /\ manifest # Nil
           => \A k \in 1..Len(manifest[1].text) :
                  createMachineDeployment(state.Cluster[1], Pools[k]).md
                      = <<[manifest[1].text[k] EXCEPT !.TypeMeta =
                              [APIVersion |-> "", Kind |-> ""]]>>

\* C20: no step of CreateMachineDeployments or
\* GenerateMachineDeploymentsManifest changes the state (each pool's
\* payload with its tag map, replica count, labels and name stay what they
\* were), and generating again from the state yields the descriptors
\* already handed out.
C20_StateUnchanged ==
    /\ []Regenerates
    /\ [][state' = state]_vars

C20_Witness ==
    /\ AWSCluster
    /\ manifest # Nil
    /\ Len(manifest[1].text) = 2
    /\ Len(applied) = 2
    /\ Pools[1].Config.CloudProviderSpec = Some(PayloadTagged)
    /\ Pools[2].Config.CloudProviderSpec = Some(PayloadPlain)
    /\ DOMAIN TagsOf(PayloadOf(applied[1].obj))
           = {"team", "kubernetes.io/cluster/prod"}

-----------------------------------------------------------------------------
(* Properties of the endpoint, proxy and host defaults *)

\* C15: after normalization the API endpoint port is the user's non-zero
\* port or else 6443, for every input; an endpoint host the user gave is
\* kept, and an unset one is the public address the first control-plane
\* host has after normalization, when there is such a host.
C15_APIEndpoint ==
    Normalized =>
        /\ obj.APIEndpoint.Port = IF pre.APIEndpoint.Port # 0
                                  THEN pre.APIEndpoint.Port
                                  ELSE 6443
        /\ pre.APIEndpoint.Host # ""
               => obj.APIEndpoint.Host = pre.APIEndpoint.Host
        /\ (pre.APIEndpoint.Host = "" /\ Len(pre.ControlPlane.Hosts) > 0)
               => obj.APIEndpoint.Host
                      = obj.ControlPlane.Hosts[1].PublicAddress

\* a network value after normalization: the one given, or the default
Given(value, default) == IF value # "" THEN value ELSE default

\* C16: after normalization of a spec with an HTTP or HTTPS proxy,
\* Proxy.NoProxy is "127.0.0.1/8,localhost", the service domain, the pod
\* subnet, the service subnet (each the given or else the default value,
\* never empty) and the no-proxy value given, if any, joined by commas in
\* this order; without a proxy Proxy.NoProxy is as it was.
C16_NoProxy ==
    Normalized =>
        LET net == pre.ClusterNetwork
            domain == Given(net.ServiceDomainName, "cluster.local")
            pod == Given(net.PodSubnet, "10.244.0.0/16")
            service == Given(net.ServiceSubnet, "10.96.0.0/12")
        IN  IF pre.Proxy.HTTP # "" \/ pre.Proxy.HTTPS # ""
            THEN /\ obj.Proxy.NoProxy
                        = "127.0.0.1/8,localhost," \o domain \o "," \o pod
                              \o "," \o service
                              \o (IF pre.Proxy.NoProxy # ""
                                  THEN "," \o pre.Proxy.NoProxy
                                  ELSE "")
                 /\ obj.ClusterNetwork.ServiceDomainName = domain
                 /\ obj.ClusterNetwork.PodSubnet = pod
                 /\ obj.ClusterNetwork.ServiceSubnet = service
            ELSE obj.Proxy.NoProxy = pre.Proxy.NoProxy

C16_Witness ==
    /\ Normalized
    /\ calls = 1
    /\ input.Proxy = [HTTP |-> "", HTTPS |-> "https://proxy:3128",
                      NoProxy |-> "example.com"]
    /\ input.ClusterNetwork.PodSubnet = ""
    /\ obj.Proxy.NoProxy = "127.0.0.1/8,localhost,cluster.local,"
                               \o "10.244.0.0/16,10.96.0.0/12,example.com"

\* C17: after defaultHostConfig a host has the SSH username given or else
\* "root", the SSH port and the bastion port given or else 22, the bastion
\* user given or else the SSH username it now has; without a private-key
\* file its agent socket is the one given or else "env:SSH_AUTH_SOCK",
\* with one its agent socket is as given; so a key file or an agent socket
\* is always set, and no value the user gave is replaced.
C17_SSHDefaults ==
    hostCalls > 0 =>
        /\ host.SSHUsername = Given(hostIn.SSHUsername, "root")
        /\ host.SSHUsername # ""
        /\ host.SSHPort = IF hostIn.SSHPort # 0 THEN hostIn.SSHPort ELSE 22
        /\ host.BastionPort = IF hostIn.BastionPort # 0
                              THEN hostIn.BastionPort
                              ELSE 22
        /\ host.BastionUser = Given(hostIn.BastionUser, host.SSHUsername)
        /\ host.SSHPrivateKeyFile = hostIn.SSHPrivateKeyFile
        /\ hostIn.SSHPrivateKeyFile = ""
               => host.SSHAgentSocket
                      = Given(hostIn.SSHAgentSocket, "env:SSH_AUTH_SOCK")
        /\ hostIn.SSHPrivateKeyFile # ""
               => host.SSHAgentSocket = hostIn.SSHAgentSocket
        /\ host.SSHPrivateKeyFile # "" \/ host.SSHAgentSocket # ""

C17_Witness ==
    /\ hostCalls = 1
    /\ hostIn.SSHUsername = "ubuntu"
    /\ hostIn.BastionUser = ""
    /\ hostIn.SSHPrivateKeyFile = ""
    /\ hostIn.SSHAgentSocket = ""
    /\ hostIn.SSHPort = 2222
    /\ host.BastionUser = "ubuntu"
    /\ host.SSHAgentSocket = "env:SSH_AUTH_SOCK"
    /\ host.BastionPort = 22

\* the addresses of host after, for the addresses the user gave in before
Backfilled(before, after) ==
    LET pub == before.PublicAddress
        priv == before.PrivateAddress
    IN  /\ after.PublicAddress = Given(pub, priv)
        /\ after.PrivateAddress = Given(priv, pub)

\* C18: after normalization every control-plane host and every static
\* worker given one address has it as both its addresses, and one given
\* both or none has its addresses as given, whatever the number of
\* control-plane hosts.
C18_AddressBackfill ==
    Normalized =>
        /\ Len(obj.ControlPlane.Hosts) = Len(pre.ControlPlane.Hosts)
        /\ Len(obj.StaticWorkers.Hosts) = Len(pre.StaticWorkers.Hosts)
        /\ \A k \in 1..Len(pre.ControlPlane.Hosts) :
               Backfilled(pre.ControlPlane.Hosts[k],
                          obj.ControlPlane.Hosts[k])
        /\ \A k \in 1..Len(pre.StaticWorkers.Hosts) :
               Backfilled(pre.StaticWorkers.Hosts[k],
                          obj.StaticWorkers.Hosts[k])

=============================================================================
